---- MODULE Spec2Model ----
(***************************************************************************)
(* Model of the GitHub streak service (src/main.py).                       *)
(*                                                                         *)
(*  - StreakCalculator.calculate_streaks is a pure fold over the list of   *)
(*    contribution days; it is modelled by the operators SortByDate, Step, *)
(*    Walk, OngoingStreak and calculate_streaks, and exercised directly    *)
(*    by the specification SpecEngine on arbitrary bounded inputs          *)
(*    (unsorted, with gaps, with duplicate dates).                         *)
(*  - The two HTTP endpoints, get_github_streak and get_streak_image, are  *)
(*    modelled by the specification Spec as one request at a time moving   *)
(*    through the handler's code (gate, fetch, parse + calculate, return   *)
(*    or raise).                                                           *)
(*                                                                         *)
(* Dates are day ordinals (integers); a datetime at midnight and its       *)
(* .date() are the same ordinal.  An Optional[date] is a set with at most  *)
(* one element: {} is None, {d} is the date d.                             *)
(***************************************************************************)
EXTENDS Integers, Sequences, FiniteSets, TLC

\* ------------------------------------------------------------------ bounds
MaxLen == 3     \* longest list handed to calculate_streaks by SpecEngine
MaxDate == 4    \* dates (and today) range over 1..MaxDate
MaxCount == 1   \* contribution counts range over 0..MaxCount

Dates == 1..MaxDate
Counts == 0..MaxCount

\* One element of the list given to calculate_streaks.
Days == [date : Dates, contributions_count : Counts]

\* Every list of at most MaxLen days: unsorted, gappy, with duplicates.
Inputs == UNION {[1..n -> Days] : n \in 0..MaxLen}

RECURSIVE Contiguous(_, _, _)
\* One calendar: an entry for every date from..to, in order, any counts.
Contiguous(from, to, acc) ==
    IF from > to THEN {acc}
    ELSE UNION {Contiguous(from + 1, to, Append(acc, [date |-> from, contributions_count |-> c]))
                   : c \in Counts}

\* What the data source returns for an existing user: a contiguous calendar
\* range, one entry per day, zero-count days included (possibly no day at all).
Calendars ==
    {<<>>} \cup UNION {Contiguous(a, b, <<>>) : a \in Dates, b \in Dates}

\* ------------------------------------------------------------------ state
VARIABLES
    GITHUB_TOKEN,        \* module global: os.getenv("GITHUB_TOKEN")
    allowed_usernames,   \* module global: the lowercased allow-list
    pc,                  \* position of the request (or of the direct call)
    endpoint,            \* "streak" (JSON) or "image" (badge); "none" when idle
    username,            \* the path parameter, a sequence of characters
    calls,               \* functions called so far during this request
    upstream,            \* what requests.post did
    exception,           \* the exception in flight, if any
    passed,              \* the list as handed to calculate_streaks
    contributions,       \* the same list object (sorted in place by the call)
    today,               \* datetime.now().date() read by calculate_streaks
    streak_data,         \* the dict calculate_streaks returned
    response             \* what the client receives

vars == <<GITHUB_TOKEN, allowed_usernames, pc, endpoint, username, calls,
          upstream, exception, passed, contributions, today, streak_data,
          response>>

\* --------------------------------------------------- calculate_streaks

ZeroResult ==
    [max_streak |-> 0, ongoing_streak |-> 0, total_contributions |-> 0,
     last_contribution_date |-> {}]

\* Insert day x into the date-sorted list s after every entry whose date is
\* not later (list.sort is stable: equal keys keep their input order).
RECURSIVE InsertByDate(_, _)
InsertByDate(s, x) ==
    IF s = <<>> THEN <<x>>
    ELSE IF Head(s).date <= x.date
         THEN <<Head(s)>> \o InsertByDate(Tail(s), x)
         ELSE <<x>> \o s

\* Mutant: the list is walked in the order it was passed.
SortByDate_Unsorted(s) == s

RECURSIVE SortByDate(_)
\* contributions.sort(key=lambda x: x["date"])
SortByDate(s) ==
    IF s = <<>> THEN <<>>
    ELSE InsertByDate(SortByDate(SubSeq(s, 1, Len(s) - 1)), s[Len(s)])

\* The loop's local variables before the first iteration.
WalkInit ==
    [max_streak |-> 0, current_streak |-> 0, previous_day |-> {},
     total_contributions |-> 0, last_contribution_date |-> {}]

\* The streak counter after one day of the walk.
NextCurrent(st, day, t) ==
    IF st.previous_day # {}
    THEN LET prev == CHOOSE p \in st.previous_day : TRUE
             day_diff == day.date - prev
         IN  IF day_diff = 1 /\ day.contributions_count > 0 THEN st.current_streak + 1
             ELSE IF day.contributions_count > 0 THEN 1
             ELSE IF day.date # t THEN 0
             ELSE st.current_streak
    ELSE IF day.contributions_count > 0 THEN 1
    ELSE st.current_streak

\* Mutant: max_streak is compared with the streak counter of the previous
\* iteration (the update placed before the counter is advanced).
Step_StaleMax(st, day, t) ==
    [max_streak            |-> IF st.current_streak > st.max_streak
                               THEN st.current_streak ELSE st.max_streak,
     current_streak        |-> NextCurrent(st, day, t),
     previous_day          |-> {day.date},
     total_contributions   |-> st.total_contributions + day.contributions_count,
     last_contribution_date |-> IF day.contributions_count > 0
                                THEN {day.date} ELSE st.last_contribution_date]

\* Mutant: max_streak is overwritten with the streak counter every day.
Step_MaxFollowsCurrent(st, day, t) ==
    [max_streak            |-> NextCurrent(st, day, t),
     current_streak        |-> NextCurrent(st, day, t),
     previous_day          |-> {day.date},
     total_contributions   |-> st.total_contributions + day.contributions_count,
     last_contribution_date |-> IF day.contributions_count > 0
                                THEN {day.date} ELSE st.last_contribution_date]

\* One iteration of "for day in contributions".
Step(st, day, t) ==
    LET cur == NextCurrent(st, day, t)
    IN  [max_streak            |-> IF cur > st.max_streak THEN cur ELSE st.max_streak,
         current_streak        |-> cur,
         previous_day          |-> {day.date},
         total_contributions   |-> st.total_contributions + day.contributions_count,
         last_contribution_date |-> IF day.contributions_count > 0
                                    THEN {day.date} ELSE st.last_contribution_date]

RECURSIVE WalkTo(_, _, _)
\* The loop's local variables after the first n iterations over s.
WalkTo(s, n, t) ==
    IF n = 0 THEN WalkInit ELSE Step(WalkTo(s, n - 1, t), s[n], t)

\* The loop's local variables after walking the whole list s.
Walk(s, t) == WalkTo(s, Len(s), t)

\* Mutant: the lapse check after the walk is missing.
OngoingStreak_NoLapseCheck(current_streak, last_contribution_date, t) ==
    current_streak

\* ongoing_streak = current_streak; zeroed if last_contribution_date != today
OngoingStreak(current_streak, last_contribution_date, t) ==
    IF last_contribution_date # {t} THEN 0 ELSE current_streak

\* StreakCalculator.calculate_streaks, with today = datetime.now().date()
calculate_streaks(list, t) ==
    IF list = <<>> THEN ZeroResult
    ELSE LET w == Walk(SortByDate(list), t)
         IN  [max_streak |-> w.max_streak,
              ongoing_streak |->
                  OngoingStreak(w.current_streak, w.last_contribution_date, t),
              total_contributions |-> w.total_contributions,
              last_contribution_date |-> w.last_contribution_date]

\* The caller's list after the call: sorted in place unless it was empty.
SortedInPlace(list) == IF list = <<>> THEN <<>> ELSE SortByDate(list)

\* ------------------------------------------------------------ the service

\* Characters of a username and str.lower() on them.
Chars == {"a", "b", "A", "B"}

LowerChar(c) == CASE c = "A" -> "a" [] c = "B" -> "b" [] OTHER -> c

\* str.lower()
Lower(u) == [i \in 1..Len(u) |-> LowerChar(u[i])]

\* Usernames a client may put in the path.
Usernames == {<<"a">>, <<"A">>, <<"b">>, <<"a", "b">>, <<"A", "b">>, <<"a", "B">>}

\* Possible contents of allowed.json (a JSON list of names, any letter case).
AllowedFiles == {<<>>, <<<<"a", "b">>>>, <<<<"A", "b">>, <<"B">>>>}

\* allowed_usernames = [username.lower() for username in json.load(file)]
LoadAllowed(file) == [i \in 1..Len(file) |-> Lower(file[i])]

\* x in list
InList(x, list) == \E i \in 1..Len(list) : list[i] = x

\* Mutant: the request's username is compared as typed.
IsAllowed_CaseSensitive(u, list) == InList(u, list)

\* not (username.lower() not in allowed_usernames)
IsAllowed(u, list) == InList(Lower(u), list)

\* os.getenv yields None when the variable is unset; it may also be empty.
TokenValues == {"None", "", "ghp_token"}

\* Mutant: the token is never found missing.
TokenMissing_Never(token) == FALSE

\* not GITHUB_TOKEN
TokenMissing(token) == token \in {"None", ""}

\* HTTP statuses other than 200 the data source may answer with.
FailureStatuses == {400, 401, 403, 404, 500, 502}

NoUpstream == [kind |-> "none", status |-> 0, body |-> "none", days |-> <<>>]

\* What requests.post(...) followed by response.json() can do: raise
\* (connection error, timeout), answer a status other than 200, or answer 200
\* with a body that carries "errors", carries a calendar, or is not the
\* expected JSON.
UpstreamOutcomes ==
    {[kind |-> k, status |-> 0, body |-> "none", days |-> <<>>]
        : k \in {"ConnectionError", "Timeout"}}
    \cup {[kind |-> "response", status |-> st, body |-> "none", days |-> <<>>]
        : st \in FailureStatuses}
    \cup {[kind |-> "response", status |-> 200, body |-> b, days |-> <<>>]
        : b \in {"errors", "invalid"}}
    \cup {[kind |-> "response", status |-> 200, body |-> "calendar", days |-> c]
        : c \in Calendars}

NoException == [type |-> "none", status_code |-> 0, detail |-> ""]

HTTPException(code, text) ==
    [type |-> "HTTPException", status_code |-> code, detail |-> text]

OtherException(text) == [type |-> "Exception", status_code |-> 0, detail |-> text]

NoResponse == [kind |-> "none", status |-> 0, body |-> ""]

\* generate_access_denied_svg / generate_user_not_found_svg / generate_streak_svg
Badge(which) == [kind |-> "badge", status |-> 200, body |-> which]

\* FastAPI's answer to an HTTPException that leaves the handler.
ErrorResponse(e) == [kind |-> "error", status |-> e.status_code, body |-> e.detail]

\* The exception fetch_github_data ends with for upstream outcome o (token
\* present), or NoException when it returns response.json().
FetchException(o) ==
    IF o.kind \in {"ConnectionError", "Timeout"} THEN OtherException(o.kind)
    ELSE IF o.status # 200
         THEN HTTPException(o.status, "Error fetching data from GitHub")
    ELSE IF o.body = "invalid" THEN OtherException("JSONDecodeError")
    ELSE NoException

\* get_github_streak's except clauses: an HTTPException is re-raised as it is,
\* anything else becomes HTTPException(500, str(e)).
StreakExcept(e) ==
    IF e.type = "HTTPException" THEN e ELSE HTTPException(500, e.detail)

\* Mutant: the 404 branch is missing, every HTTPException is re-raised.
ImageExcept_AlwaysRaise(e) == ErrorResponse(e)

\* get_streak_image's except HTTPException clause.
ImageExcept(e) ==
    IF e.status_code = 404 THEN Badge("user_not_found") ELSE ErrorResponse(e)

Init ==
    /\ GITHUB_TOKEN \in TokenValues
    /\ \E file \in AllowedFiles : allowed_usernames = LoadAllowed(file)
    /\ pc = "idle"
    /\ endpoint = "none"
    /\ username = <<>>
    /\ calls = <<>>
    /\ upstream = NoUpstream
    /\ exception = NoException
    /\ passed = <<>>
    /\ contributions = <<>>
    /\ today \in Dates
    /\ streak_data = ZeroResult
    /\ response = NoResponse

\* A request arrives at /streak/{username} or /streak/{username}/image.
Receive ==
    /\ pc = "idle"
    /\ \E ep \in {"streak", "image"}, u \in Usernames :
          /\ endpoint' = ep
          /\ username' = u
          /\ pc' = IF ep = "image" THEN "gate" ELSE "fetch"
          /\ calls' = IF ep = "image" THEN <<"get_streak_image">>
                                      ELSE <<"get_github_streak">>
    /\ UNCHANGED <<GITHUB_TOKEN, allowed_usernames, upstream, exception, passed,
                   contributions, today, streak_data, response>>

\* get_streak_image up to its call of get_github_streak.
Gate ==
    /\ pc = "gate"
    /\ IF IsAllowed(username, allowed_usernames)
       THEN /\ pc' = "fetch"
            /\ calls' = Append(calls, "get_github_streak")
            /\ response' = response
       ELSE /\ pc' = "done"
            /\ calls' = Append(calls, "generate_access_denied_svg")
            /\ response' = Badge("access_denied")
    /\ UNCHANGED <<GITHUB_TOKEN, allowed_usernames, endpoint, username, upstream,
                   exception, passed, contributions, today, streak_data>>

\* fetch_github_data, called first thing by get_github_streak.
FetchGithubData ==
    /\ pc = "fetch"
    /\ IF TokenMissing(GITHUB_TOKEN)
       THEN /\ calls' = Append(calls, "fetch_github_data")
            /\ exception' = HTTPException(500, "GitHub Token is missing!")
            /\ upstream' = upstream
            /\ pc' = "except"
       ELSE \E o \in UpstreamOutcomes :
            /\ calls' = calls \o <<"fetch_github_data", "requests.post">>
            /\ upstream' = o
            /\ exception' = FetchException(o)
            /\ pc' = IF FetchException(o) = NoException THEN "parse" ELSE "except"
    /\ UNCHANGED <<GITHUB_TOKEN, allowed_usernames, endpoint, username, passed,
                   contributions, today, streak_data, response>>

\* get_github_streak after the fetch: the "errors" check, the flattening of
\* the weeks into the contributions list, and the call of calculate_streaks.
ParseAndCalculate ==
    /\ pc = "parse"
    /\ IF upstream.body = "errors"
       THEN /\ exception' = HTTPException(404, "GitHub user not found")
            /\ pc' = "except"
            /\ UNCHANGED <<calls, passed, contributions, today, streak_data>>
       ELSE \E t \in Dates :
            /\ today' = t
            /\ passed' = upstream.days
            /\ contributions' = SortedInPlace(upstream.days)
            /\ streak_data' = calculate_streaks(upstream.days, t)
            /\ calls' = Append(calls, "calculate_streaks")
            /\ exception' = exception
            /\ pc' = "return"
    /\ UNCHANGED <<GITHUB_TOKEN, allowed_usernames, endpoint, username, upstream,
                   response>>

\* get_github_streak returns its dict; the JSON endpoint answers with it, the
\* badge endpoint draws it with generate_streak_svg.
Return ==
    /\ pc = "return"
    /\ response' = IF endpoint = "image" THEN Badge("streak")
                   ELSE [kind |-> "json", status |-> 200, body |-> "streak"]
    /\ calls' = IF endpoint = "image" THEN Append(calls, "generate_streak_svg")
                ELSE calls
    /\ pc' = "done"
    /\ UNCHANGED <<GITHUB_TOKEN, allowed_usernames, endpoint, username, upstream,
                   exception, passed, contributions, today, streak_data>>

\* An exception leaves get_github_streak through its except clauses, and on
\* the badge endpoint passes through those of get_streak_image.
Raise ==
    /\ pc = "except"
    /\ exception' = StreakExcept(exception)
    /\ response' = IF endpoint = "image" THEN ImageExcept(StreakExcept(exception))
                   ELSE ErrorResponse(StreakExcept(exception))
    /\ calls' = IF endpoint = "image"
                   /\ ImageExcept(StreakExcept(exception)).kind = "badge"
                THEN Append(calls, "generate_user_not_found_svg") ELSE calls
    /\ pc' = "done"
    /\ UNCHANGED <<GITHUB_TOKEN, allowed_usernames, endpoint, username, upstream,
                   passed, contributions, today, streak_data>>

\* The response is sent; the per-request values are discarded.
Complete ==
    /\ pc = "done"
    /\ pc' = "idle"
    /\ endpoint' = "none"
    /\ username' = <<>>
    /\ calls' = <<>>
    /\ upstream' = NoUpstream
    /\ exception' = NoException
    /\ passed' = <<>>
    /\ contributions' = <<>>
    /\ streak_data' = ZeroResult
    /\ response' = NoResponse
    /\ UNCHANGED <<GITHUB_TOKEN, allowed_usernames, today>>

Next ==
    \/ Receive
    \/ Gate
    \/ FetchGithubData
    \/ ParseAndCalculate
    \/ Return
    \/ Raise
    \/ Complete

Spec == Init /\ [][Next]_vars

\* ------------------------------------------- calculate_streaks called alone

\* A caller hands calculate_streaks any list of days, on any day.
InitEngine ==
    /\ GITHUB_TOKEN = "ghp_token"
    /\ allowed_usernames = <<>>
    /\ pc = "call"
    /\ endpoint = "none"
    /\ username = <<>>
    /\ calls = <<>>
    /\ upstream = NoUpstream
    /\ exception = NoException
    /\ passed \in Inputs
    /\ contributions = passed
    /\ today \in Dates
    /\ streak_data = ZeroResult
    /\ response = NoResponse

\* The call runs to its return statement.
CalculateStreaks ==
    /\ pc = "call"
    /\ streak_data' = calculate_streaks(contributions, today)
    /\ contributions' = SortedInPlace(contributions)
    /\ calls' = Append(calls, "calculate_streaks")
    /\ pc' = "returned"
    /\ UNCHANGED <<GITHUB_TOKEN, allowed_usernames, endpoint, username, upstream,
                   exception, passed, today, response>>

NextEngine == CalculateStreaks

SpecEngine == InitEngine /\ [][NextEngine]_vars

\* ------------------------------------------------ vocabulary of the claims

\* No two entries of s carry the same date.
DistinctDates(s) == \A i, j \in 1..Len(s) : s[i].date = s[j].date => i = j

DatesOf(s) == {s[i].date : i \in 1..Len(s)}

\* The dates that carry a positive count in s (with duplicate dates: the
\* dates whose counts sum to more than 0).
PositiveDates(s) == {s[i].date : i \in {j \in 1..Len(s) : s[j].contributions_count > 0}}

\* Every calendar day between the first and the last date of s has an entry.
GapFree(s) == \A d \in Dates :
    (\E a, b \in DatesOf(s) : a <= d /\ d <= b) => d \in DatesOf(s)

MaxOf(S) == CHOOSE m \in S : \A x \in S : x <= m

\* Length of the longest run of consecutive calendar days that all carry a
\* positive count in s; 0 when no day does.
LongestRun(s) ==
    MaxOf({0} \cup {b - a + 1 : <<a, b>> \in
              {r \in Dates \X Dates : r[1] <= r[2] /\ (r[1]..r[2]) \subseteq PositiveDates(s)}})

\* The dates of s never decrease from one entry to the next.
IsChronological(s) == \A i, j \in 1..Len(s) : i < j => s[i].date <= s[j].date

\* Every reordering of the list s.
PermsOf(s) == {[i \in 1..Len(s) |-> s[f[i]]] : f \in Permutations(1..Len(s))}

\* Day d has no entry in s, or only zero-count entries.
ZeroOrAbsent(s, d) == \A i \in 1..Len(s) : s[i].date = d => s[i].contributions_count = 0

\* s holds positive days t-n..t-1, preceded by a zero-count day or by
\* nothing, today t is absent or has count 0, and nothing lies after today.
GraceCase(s, t, n) ==
    /\ n >= 1
    /\ DistinctDates(s)
    /\ \A d \in (t - n)..(t - 1) : d \in PositiveDates(s)
    /\ ZeroOrAbsent(s, t - n - 1)
    /\ ZeroOrAbsent(s, t)
    /\ \A d \in DatesOf(s) : d <= t

\* The most recent positive day of s is 2 or more days before t.
Lapsed(s, t) == PositiveDates(s) # {} /\ t - MaxOf(PositiveDates(s)) >= 2

Returned == pc = "returned"

\* ------------------------------------------------------------------ claims

\* C1 (today grace period): when the input holds positive days D-n..D-1 and
\* today D is absent or has count 0, calculate_streaks returns ongoing streak
\* n; more generally, whenever today minus the last positive date is 0 or 1
\* day, the ongoing streak is the running streak at the end of the walk.
\* The code zeroes the ongoing streak unless the last positive date IS today.
C1_TodayGrace ==
    Returned =>
        /\ \A n \in 1..MaxDate :
              GraceCase(passed, today, n) => streak_data.ongoing_streak = n
        /\ \A last \in streak_data.last_contribution_date :
              today - last \in {0, 1} =>
                 streak_data.ongoing_streak
                    = Walk(SortByDate(passed), today).current_streak

\* C2 (longest streak): for gap-free, duplicate-free input and any today,
\* max_streak is the length of the longest run of consecutive positive days.
\* The code carries the streak across a zero-count entry dated today.
C2_LongestIsLongestRun ==
    Returned /\ DistinctDates(passed) /\ GapFree(passed)
        => streak_data.max_streak = LongestRun(passed)

\* C3 (current <= longest): for any input (unsorted, gaps, duplicate dates)
\* and any today, 0 <= ongoing_streak <= max_streak.
C3_OngoingAtMostMax ==
    Returned =>
        /\ 0 <= streak_data.ongoing_streak
        /\ streak_data.ongoing_streak <= streak_data.max_streak

C3_Witness ==
    /\ Returned
    /\ ~DistinctDates(passed)
    /\ passed # contributions
    /\ 1 <= streak_data.ongoing_streak
    /\ streak_data.ongoing_streak < streak_data.max_streak

\* C4 as stated (lapse): whenever the most recent positive day is 2 or more
\* days before today, ongoing_streak is 0, max_streak is the longest
\* historical run and last_contribution_date is that most recent positive day.
C4_LapseAnyInput ==
    Returned /\ Lapsed(passed, today) =>
        /\ streak_data.ongoing_streak = 0
        /\ streak_data.max_streak = LongestRun(passed)
        /\ streak_data.last_contribution_date = {MaxOf(PositiveDates(passed))}

\* C4 as amended: the same, with max_streak equal to the longest historical
\* run when no date occurs twice in the input (days in between may be
\* zero-count entries or missing).
C4_Lapse ==
    Returned /\ Lapsed(passed, today) =>
        /\ streak_data.ongoing_streak = 0
        /\ streak_data.last_contribution_date = {MaxOf(PositiveDates(passed))}
        /\ DistinctDates(passed) => streak_data.max_streak = LongestRun(passed)

C4_Witness ==
    /\ Returned
    /\ Lapsed(passed, today)
    /\ DistinctDates(passed)
    /\ today \notin DatesOf(passed)
    /\ streak_data.max_streak >= 2
    /\ streak_data.ongoing_streak = 0

\* C5 (order independence): take any chronologically sorted input.  With
\* pairwise distinct dates every permutation of it gives the result the
\* sorted input gives (all four fields); total_contributions is the same for
\* every permutation even when dates repeat.  (Every list is a permutation of
\* a chronologically sorted one, so this covers every input.)
C5_OrderIndependent ==
    Returned /\ IsChronological(passed) =>
        \A p \in PermsOf(passed) :
            LET permuted == calculate_streaks(p, today)
            IN  /\ DistinctDates(passed) => permuted = streak_data
                /\ permuted.total_contributions = streak_data.total_contributions

\* Scenario C's shape: three distinct dates, and an unsorted permutation of
\* them with a streak of 2 or more that reaches today.
C5_Witness ==
    /\ Returned
    /\ IsChronological(passed)
    /\ DistinctDates(passed)
    /\ Len(passed) >= 3
    /\ streak_data.ongoing_streak >= 2
    /\ \E p \in PermsOf(passed) :
          /\ ~IsChronological(p)
          /\ calculate_streaks(p, today) = streak_data

\* C10 (monotonic longest): on a chronologically ordered list, max_streak of
\* the first k+1 days is at least max_streak of the first k days.
C10_MonotonicLongest ==
    Returned =>
        \A k \in 0..(Len(contributions) - 1) :
            calculate_streaks(SubSeq(contributions, 1, k + 1), today).max_streak
               >= calculate_streaks(SubSeq(contributions, 1, k), today).max_streak

C10_Witness ==
    /\ Returned
    /\ Len(contributions) >= 3
    /\ contributions[Len(contributions)].contributions_count = 0
    /\ contributions[Len(contributions)].date # today
    /\ streak_data.max_streak >= 2
    /\ calculate_streaks(SubSeq(contributions, 1, 1), today).max_streak = 1

\* ------------------------------------------------- claims on the endpoints

Called(f) == \E i \in 1..Len(calls) : calls[i] = f

\* requests.post raised, or the data source answered a status other than 200.
UpstreamFailed ==
    \/ upstream.kind \in {"ConnectionError", "Timeout"}
    \/ upstream.kind = "response" /\ upstream.status # 200

\* The data source answered 200 with a body that carries "errors".
UpstreamSaysNoSuchUser ==
    upstream.kind = "response" /\ upstream.status = 200 /\ upstream.body = "errors"

\* The environment held no GITHUB_TOKEN (or an empty one) at startup.
CredentialAbsent == GITHUB_TOKEN \in {"None", ""}

\* C6 (access gate): on the badge endpoint, a username whose lowercase form
\* is not in the allow-list gets the access-denied badge, and neither
\* fetch_github_data nor calculate_streaks is called during the request; a
\* username whose lowercase form is in the list never gets that badge.
C6_AccessGate ==
    endpoint = "image" =>
        IF InList(Lower(username), allowed_usernames)
        THEN response # Badge("access_denied")
        ELSE /\ ~Called("fetch_github_data")
             /\ ~Called("calculate_streaks")
             /\ pc = "done" => response = Badge("access_denied")

\* A request typed with an upper-case letter is refused without any fetch.
C6_Witness ==
    /\ pc = "done"
    /\ endpoint = "image"
    /\ username # Lower(username)
    /\ allowed_usernames # <<>>
    /\ ~CredentialAbsent
    /\ response = Badge("access_denied")
    /\ calls = <<"get_streak_image", "generate_access_denied_svg">>

\* C7 as stated (missing configuration is fatal at startup): with the
\* credential missing the service never takes up or answers a request, and
\* the missing credential is never the outcome of a request.
C7_FatalAtStartup ==
    /\ CredentialAbsent => pc = "idle" /\ response = NoResponse
    /\ response.body # "GitHub Token is missing!"

\* C7 as amended: with the credential missing the service starts and takes
\* requests; the data source is never contacted and calculate_streaks never
\* called, and every request ends either with the access-denied badge (badge
\* endpoint, username not allowed) or with HTTP 500 "GitHub Token is missing!".
C7_MissingTokenPerRequest ==
    CredentialAbsent =>
        /\ ~Called("requests.post")
        /\ ~Called("calculate_streaks")
        /\ pc = "done" =>
              \/ response = Badge("access_denied")
              \/ response = [kind |-> "error", status |-> 500,
                             body |-> "GitHub Token is missing!"]

C7_Witness ==
    /\ CredentialAbsent
    /\ pc = "done"
    /\ endpoint = "image"
    /\ Called("fetch_github_data")
    /\ response = [kind |-> "error", status |-> 500,
                   body |-> "GitHub Token is missing!"]

\* C8 (transient upstream failure): every connection error, timeout or
\* non-200 status of the data source ends the request, on both endpoints,
\* with an HTTP 5xx error, never a client error or the user-not-found badge.
\* The code hands the data source's own status code on to the client.
C8_UpstreamFailureIsServerError ==
    pc = "done" /\ UpstreamFailed =>
        /\ response.kind = "error"
        /\ response.status \in 500..599

\* C9 (upstream not-found): when the data source's answer carries "errors",
\* calculate_streaks is not called, the JSON endpoint ends with 404 and the
\* badge endpoint (username allowed) answers 200 with the user-not-found badge.
C9_NotFound ==
    UpstreamSaysNoSuchUser =>
        /\ ~Called("calculate_streaks")
        /\ pc = "done" /\ endpoint = "streak" =>
              response = [kind |-> "error", status |-> 404,
                          body |-> "GitHub user not found"]
        /\ pc = "done" /\ endpoint = "image" =>
              /\ IsAllowed(username, allowed_usernames)
              /\ response = Badge("user_not_found")

C9_Witness ==
    /\ UpstreamSaysNoSuchUser
    /\ pc = "done"
    /\ endpoint = "image"
    /\ response = Badge("user_not_found")
    /\ Called("generate_user_not_found_svg")
====
